---- MODULE Spec2Model ----
(***************************************************************************)
(* Model of the upstream dispatch pipeline of codex-openai-wrapper:        *)
(* startUpstreamRequest (src/src/upstream.ts) with its collaborators       *)
(* getRefreshedAuth / refreshAccessToken (auth_kv), getBaseInstructions    *)
(* (instructions) and the outbound transport (fetch).                      *)
(*                                                                         *)
(* JavaScript values are tagged records [t |-> tag, ...] so that null,     *)
(* undefined, strings, booleans and objects can be told apart and the      *)
(* truthiness tests and property reads of the code are computed as the     *)
(* code computes them.                                                     *)
(***************************************************************************)
EXTENDS Integers, Sequences, FiniteSets, TLC

\* ---------------------------------------------------------------- bounds
\* number of distinct conversation inputs the caller may pass
MaxInputs == 2
\* longest instruction text, in characters, of the fingerprint inputs
MaxInstrLen == 2
\* number of access tokens the credential gateway may mint in one run
MaxMint == 2

\* ---------------------------------------------------------------- state
VARIABLES
    env, model, inputItems, options,    \* arguments of the invocation
    pc,                                 \* position inside startUpstreamRequest
    accessToken, accountId,             \* destructured result of getRefreshedAuth
    sessionId, requestUrl, requestBody, headers,
    upstreamResponse, errorBody, refreshedTokens, retryResponse,
    result,                             \* the value the promise resolves to
    exception,                          \* the value the promise rejects with
    sent,                               \* requests handed to fetch for the target
    log,                                \* calls made to collaborators, in order
    \* getInstructionsForModel
    instrModel, instrPc, instrFetches, instrResult,
    \* concurrent invocations over one credential store
    store, inv

mainVars ==
    <<env, model, inputItems, options, pc, accessToken, accountId, sessionId,
      requestUrl, requestBody, headers, upstreamResponse, errorBody,
      refreshedTokens, retryResponse, result, exception, sent, log>>

instrVars == <<instrModel, instrPc, instrFetches, instrResult>>
concVars == <<store, inv>>
\* the state of the other entry points, untouched by a step of this one
others == <<instrVars, concVars>>

vars == <<mainVars, instrVars, concVars>>

\* ------------------------------------------------------------ JS values
Undef == [t |-> "undefined"]
Null == [t |-> "null"]
Str(s) == [t |-> "str", v |-> s]
Bool(b) == [t |-> "bool", v |-> b]
Num(n) == [t |-> "num", v |-> n]
Arr(items) == [t |-> "arr", items |-> items]
\* a string given by its characters
Text(chars) == [t |-> "text", c |-> chars]
Obj(fields) == [t |-> "obj", f |-> fields]
EmptyFields == [k \in {} |-> Undef]

\* JavaScript ToBoolean: undefined, null, "" and false are falsy
Falsy(v) ==
    \/ v.t \in {"undefined", "null"}
    \/ (v.t = "str" /\ v.v = "")
    \/ (v.t = "text" /\ v.c = <<>>)
    \/ (v.t = "bool" /\ v.v = FALSE)

Truthy(v) == ~Falsy(v)

\* a || b
OrElse(a, b) == IF Truthy(a) THEN a ELSE b

\* a thrown value: an Error instance carries .message, anything else is
\* rendered with String(e)
ErrorOf(msg) == [t |-> "Error", message |-> msg]
Thrown(e) == [t |-> "THROW", e |-> e]
IsThrown(x) == x.t = "THROW"

\* v.k  -- reading a property of null/undefined throws a TypeError, a property
\* an object does not have (or any property of a primitive) reads undefined
GetProp(v, k) ==
    IF v.t \in {"undefined", "null"}
    THEN Thrown(ErrorOf("Cannot read properties of " \o v.t \o " (reading '" \o k \o "')"))
    ELSE IF v.t = "obj" /\ k \in DOMAIN v.f THEN v.f[k] ELSE Undef

\* `${v}` inside a template literal
ToStr(v) ==
    CASE v.t = "str" -> v.v
      [] v.t = "undefined" -> "undefined"
      [] v.t = "null" -> "null"
      [] OTHER -> v

\* ------------------------------------------------------------ responses
NoResponse == [t |-> "null"]

\* Response.ok
Ok(status) == status >= 200 /\ status <= 299

\* a Response received from the transport; id is the position of the request
\* it answers in the list of requests sent
Resp(id, status, statusText) ==
    [t |-> "Response", id |-> id, status |-> status, statusText |-> statusText,
     bodyUsed |-> FALSE]

\* new Response(JSON.stringify({error: {message}}), {status, headers})
ErrorResponse(status, message) ==
    [t |-> "Response", id |-> 0, status |-> status,
     body |-> Obj([error |-> Obj([message |-> message])]),
     headers |-> [ContentType |-> "application/json"]]

\* ------------------------------------------------- inputs of the program
\* env: OPENAI_CODEX_AUTH present or not, KV binding present or not
Envs ==
    { [OPENAI_CODEX_AUTH |-> auth, KV |-> kv,
       CHATGPT_RESPONSES_URL |-> Str("https://chatgpt/responses"),
       OLLAMA_API_URL |-> Str("http://ollama"),
       DEBUG_MODEL |-> Undef] :
        auth \in {Undef, Str("auth-json")}, kv \in BOOLEAN }

\* an environment with no KV binding and no refresh configured
PlainEnv == CHOOSE e \in Envs : ~e.KV /\ e.OPENAI_CODEX_AUTH = Undef

Models == {"gpt-5"}

\* conversation inputs: ordered sequences of opaque items
InputItemsSet == { Arr(<<Num(n)>>) : n \in 1..MaxInputs }

FunctionChoice == Obj([type |-> Str("function"), function |-> Obj([name |-> Str("foo")])])

\* the options bag of a call; an absent options argument reads as every
\* field undefined
NoOptions ==
    [instructions |-> Undef, tools |-> Undef, toolChoice |-> Undef,
     parallelToolCalls |-> Undef, reasoningParam |-> Undef,
     ollamaPath |-> Undef, ollamaPayload |-> Undef]

OptionsSet ==
    { NoOptions,
      [NoOptions EXCEPT !.instructions = Text(<<"s", "y", "s">>), !.toolChoice = Str("none"),
                        !.reasoningParam = Obj([effort |-> Str("none")])],
      [NoOptions EXCEPT !.toolChoice = FunctionChoice, !.parallelToolCalls = Bool(TRUE),
                        !.reasoningParam = Obj([effort |-> Str("high")])],
      [NoOptions EXCEPT !.toolChoice = Str("bogus"), !.instructions = Text(<<>>)],
      [NoOptions EXCEPT !.ollamaPath = Str("/api/chat"),
                        !.ollamaPayload = Obj([model |-> Str("llama")]),
                        !.toolChoice = FunctionChoice, !.parallelToolCalls = Bool(TRUE),
                        !.reasoningParam = Obj([effort |-> Str("high")])],
      [NoOptions EXCEPT !.ollamaPath = Str("/api/tags"),
                        !.instructions = Text(<<"s", "y", "s">>)] }

\* ------------------------------------------- outcomes of collaborators
\* values a rejected promise may carry: an Error instance or any other value
Failures == { ErrorOf("network down"), Str("aborted") }

TokenValues == { Undef, Str(""), Str("tok1") }
AccountValues == { Null, Str("acct1") }

\* getRefreshedAuth(env): a pair, either part possibly missing, or a rejection
AuthOutcomes ==
    { [t |-> "auth", accessToken |-> a, accountId |-> b] :
        a \in TokenValues, b \in AccountValues }
    \cup { Thrown(e) : e \in {ErrorOf("auth store unavailable")} }

\* refreshAccessToken(env): null, a token record (either part possibly
\* missing), or a rejection
RefreshOutcomes ==
    { Null }
    \cup { Obj([access_token |-> a, account_id |-> b]) :
            a \in {Undef, Str(""), Str("tok2")}, b \in {Undef, Str("acct2")} }
    \cup { Thrown(e) : e \in {ErrorOf("refresh failed")} }

\* status lines the upstream may answer with
Statuses == {200, 401, 429, 500}
StatusTexts == {"", "status-text"}

\* what response.json() of a non-ok response may resolve to; "unparseable"
\* stands for a rejection of json() (invalid JSON or a broken body stream)
Unparseable == [t |-> "unparseable"]
ErrorBodies ==
    { Unparseable,
      Null,
      Str("plain"),
      Obj(EmptyFields),
      Obj([error |-> Null]),
      Obj([error |-> Str("bad")]),
      Obj([error |-> Obj(EmptyFields)]),
      Obj([error |-> Obj([message |-> Str("")])]),
      Obj([error |-> Obj([message |-> Str("boom")])]) }

\* outcome of the fetch of the base instructions; bodyFails: response.text()
\* rejects
BaseFetchOutcomes ==
    { [t |-> "THROW", e |-> ErrorOf("dns")],
      [t |-> "Response", ok |-> FALSE, text |-> "", bodyFails |-> FALSE],
      [t |-> "Response", ok |-> TRUE, text |-> "remote prompt", bodyFails |-> FALSE] }

\* outcomes of a fetch of either prompt file
InstrFetchOutcomes ==
    BaseFetchOutcomes
    \cup { [t |-> "THROW", e |-> Str("aborted")],
           [t |-> "Response", ok |-> FALSE, text |-> "Not Found", bodyFails |-> FALSE],
           [t |-> "Response", ok |-> TRUE, text |-> "", bodyFails |-> FALSE],
           [t |-> "Response", ok |-> TRUE, text |-> "codex prompt", bodyFails |-> FALSE],
           [t |-> "Response", ok |-> TRUE, text |-> "", bodyFails |-> TRUE] }

\* model names, character by character
ModelNames ==
    { <<"g", "p", "t", "-", "5", "-", "c", "o", "d", "e", "x">>,
      <<"g", "p", "t", "-", "5", "-", "c", "o", "d", "e", "x", "-", "h", "i", "g", "h">>,
      <<"c", "o", "d", "e", "x", "-", "m", "i", "n", "i">>,
      <<"c", "o", "d", "e", "x">>,
      <<"g", "p", "t", "-", "5">>,
      <<"g", "p", "t", "-", "5", "-", "c", "o", "d", "e">>,
      <<"x", "c", "o", "d", "e", "x", "-", "1">>,
      <<>> }

\* ------------------------------------------------ functions of the code
\* JSON.stringify of an object: properties whose value is undefined are
\* dropped; JSON.stringify(undefined) is undefined
Stringify(v) ==
    IF v.t = "undefined" THEN Undef
    ELSE IF v.t = "obj"
    THEN [t |-> "json",
          of |-> [k \in {x \in DOMAIN v.f : v.f[x].t # "undefined"} |-> v.f[k]]]
    ELSE [t |-> "json", of |-> v]

\* the characters of a string value
Chars(v) == IF v.t = "text" THEN v.c ELSE <<ToStr(v)>>

RECURSIVE Flatten(_)
Flatten(seqs) == IF seqs = <<>> THEN <<>> ELSE Head(seqs) \o Flatten(Tail(seqs))

\* JSON.stringify of a string: quoted, with quotes and backslashes escaped
EscapeChar(c) ==
    IF c = "\"" THEN <<"\\", "\"">>
    ELSE IF c = "\\" THEN <<"\\", "\\">>
    ELSE <<c>>

JsonScalar(x) ==
    IF x.t = "text"
    THEN <<"\"">> \o Flatten([i \in 1..Len(x.c) |-> EscapeChar(x.c[i])]) \o <<"\"">>
    ELSE <<ToString(x.v)>>

\* JSON.stringify of the input array: [item,item,...]
JsonArray(arr) ==
    <<"[">>
    \o Flatten([i \in 1..Len(arr.items) |->
                  (IF i = 1 THEN <<>> ELSE <<",">>) \o JsonScalar(arr.items[i])])
    \o <<"]">>

\* variant: only the instructions are hashed
SessionContent_NoInput(instructions, items) ==
    Chars(OrElse(instructions, Text(<<>>)))

\* generateSessionId: SHA-256 over `${instructions || ""}|${JSON.stringify(inputItems)}`
\* rendered as hex; the content is built character by character, the digest
\* is kept symbolic (a tag around the hashed content)
SessionContent(instructions, items) ==
    Chars(OrElse(instructions, Text(<<>>))) \o <<"|">> \o JsonArray(items)

generateSessionId(instructions, items) ==
    [t |-> "hex", sha256 |-> SessionContent(instructions, items)]

\* normalizeModelName(model, env.DEBUG_MODEL) of ./utils, kept symbolic
normalizeModelName(m, debugModel) ==
    [t |-> "normalized", model |-> m, debug |-> debugModel]

\* getBaseInstructions(): the fetched text, or the built-in fallback when the
\* fetch throws or answers with a non-ok status
FallbackInstructions ==
    "You are a coding agent running in the Codex CLI, a terminal-based coding assistant. You are expected to be precise, safe, and helpful."

getBaseInstructions(fetched) ==
    IF fetched.t = "THROW" THEN Str(FallbackInstructions)
    ELSE IF ~fetched.ok THEN Str(FallbackInstructions)
    ELSE IF fetched.bodyFails THEN Str(FallbackInstructions)
    ELSE Str(fetched.text)

\* getGpt5CodexInstructions(): the try block returns the fetched text; any
\* failure reaches the catch block, which calls getBaseInstructions()
CodexFetchFailed(fetched) ==
    fetched.t = "THROW" \/ ~fetched.ok \/ fetched.bodyFails

\* s.startsWith(prefix)
StartsWith(str, prefix) ==
    Len(prefix) <= Len(str) /\ SubSeq(str, 1, Len(prefix)) = prefix

\* variant: the second prefix without its dash
shouldUseGpt5CodexInstructions_NoDash(m) ==
    \/ StartsWith(m, <<"g", "p", "t", "-", "5", "-", "c", "o", "d", "e", "x">>)
    \/ StartsWith(m, <<"c", "o", "d", "e", "x">>)

shouldUseGpt5CodexInstructions(m) ==
    \/ StartsWith(m, <<"g", "p", "t", "-", "5", "-", "c", "o", "d", "e", "x">>)
    \/ StartsWith(m, <<"c", "o", "d", "e", "x", "-">>)

BasePromptUrl ==
    "https://raw.githubusercontent.com/openai/codex/refs/heads/main/codex-rs/core/prompt.md"
CodexPromptUrl ==
    "https://raw.githubusercontent.com/openai/codex/refs/heads/main/codex-rs/core/gpt_5_codex_prompt.md"

\* variant: the test joined with && instead of ||
MissingCredentials_BothOnly(token, account) == Falsy(token) /\ Falsy(account)

\* if (!accessToken || !accountId)
MissingCredentials(token, account) == Falsy(token) \/ Falsy(account)

MissingCredentialsResult ==
    [response |-> NoResponse,
     error |-> ErrorResponse(401, Str("Missing ChatGPT credentials. Run 'codex login' first"))]

\* variant: the content is included only for an effort that is set
Include_EffortRequired(reasoningParam) ==
    LET effort == IF reasoningParam.t \in {"undefined", "null"} THEN Undef
                  ELSE GetProp(reasoningParam, "effort")
    IN IF Truthy(effort) /\ effort # Str("none")
       THEN <<"reasoning.encrypted_content">> ELSE <<>>

\* const include = []; if (reasoningParam?.effort !== "none") include.push(...)
Include(reasoningParam) ==
    LET effort == IF reasoningParam.t \in {"undefined", "null"} THEN Undef
                  ELSE GetProp(reasoningParam, "effort")
    IN IF effort # Str("none") THEN <<"reasoning.encrypted_content">> ELSE <<>>

\* Boolean(options?.ollamaPath)
IsOllamaRequest(opts) == Truthy(opts.ollamaPath)

RequestUrl(e, opts) ==
    IF IsOllamaRequest(opts)
    THEN [t |-> "url", parts |-> <<ToStr(e.OLLAMA_API_URL), ToStr(opts.ollamaPath)>>]
    ELSE [t |-> "url", parts |-> <<ToStr(e.CHATGPT_RESPONSES_URL)>>]

\* typeof v === "object" (null is handled by the truthiness test before it)
TypeofObject(v) == v.t \in {"obj", "arr", "null"}

ToolChoiceField(toolChoice) ==
    IF \/ (Truthy(toolChoice) /\ (\/ toolChoice = Str("auto")
                                  \/ toolChoice = Str("none")
                                  \/ TypeofObject(toolChoice)))
       \/ toolChoice = Undef
    THEN OrElse(toolChoice, Str("auto"))
    ELSE Str("auto")

\* the structured body of the primary backend, before serialisation
PrimaryBody(e, m, items, opts, sid, baseInstr) ==
    LET fixed ==
          [model |-> normalizeModelName(m, e.DEBUG_MODEL),
           instructions |-> OrElse(opts.instructions, baseInstr),
           input |-> items,
           tools |-> OrElse(opts.tools, Arr(<<>>)),
           tool_choice |-> ToolChoiceField(opts.toolChoice),
           parallel_tool_calls |-> OrElse(opts.parallelToolCalls, Bool(FALSE)),
           store |-> Bool(FALSE),
           stream |-> Bool(TRUE),
           include |-> Arr(Include(opts.reasoningParam)),
           prompt_cache_key |-> sid]
    IN IF Truthy(opts.reasoningParam)
       THEN Obj([reasoning |-> opts.reasoningParam] @@ fixed)
       ELSE Obj(fixed)

RequestBody(e, m, items, opts, sid, baseInstr) ==
    IF IsOllamaRequest(opts)
    THEN Stringify(opts.ollamaPayload)
    ELSE Stringify(PrimaryBody(e, m, items, opts, sid, baseInstr))

\* headers of a request: Content-Type always, the rest for the primary
\* backend only, the session header only when a fingerprint exists
BuildHeaders(isOllama, token, account, sid) ==
    LET base == [ContentType |-> "application/json"]
        auth == [Authorization |-> <<"Bearer ", ToStr(token)>>,
                 Accept |-> "text/event-stream",
                 ChatgptAccountId |-> account,
                 OpenAIBeta |-> "responses=experimental"]
        sess == IF Truthy(sid) THEN [session_id |-> sid] ELSE EmptyFields
    IN IF isOllama THEN base ELSE base @@ auth @@ sess

\* variant: the first send reads the credentials from the shared store
FirstHeaders_FromStore(isOllama, token, account, sid) ==
    BuildHeaders(isOllama, store.accessToken, store.accountId, sid)

\* headers of the first send
FirstHeaders(isOllama, token, account, sid) ==
    BuildHeaders(isOllama, token, account, sid)

\* variant: the retry always carries the credential headers
RetryHeaders_WithAuth(isOllama, refreshed, account, sid) ==
    BuildHeaders(FALSE, GetProp(refreshed, "access_token"),
                 OrElse(GetProp(refreshed, "account_id"), account), sid)

\* headers of the retry: refreshedTokens.access_token and
\* refreshedTokens.account_id || accountId
RetryHeaders(isOllama, refreshed, account, sid) ==
    BuildHeaders(isOllama, GetProp(refreshed, "access_token"),
                 OrElse(GetProp(refreshed, "account_id"), account), sid)

\* variant: any non-ok status starts the refresh
ShouldRefresh_AnyStatus(status, e) == Truthy(e.OPENAI_CODEX_AUTH)

\* if (upstreamResponse.status === 401 && env.OPENAI_CODEX_AUTH)
ShouldRefresh(status, e) == status = 401 /\ Truthy(e.OPENAI_CODEX_AUTH)

\* if (refreshedTokens)
RefreshSucceeded(refreshed) == Truthy(refreshed)

\* await upstreamResponse.json().catch(() => ({ raw: upstreamResponse.statusText }))
ReadErrorBody(parsed, statusText) ==
    IF parsed = Unparseable THEN Obj([raw |-> Str(statusText)]) ELSE parsed

\* (errorBody.error && errorBody.error.message) || "Upstream error"
ErrorMessage(body) ==
    LET err == GetProp(body, "error")
    IN IF IsThrown(err) THEN err
       ELSE LET left == IF Falsy(err) THEN err ELSE GetProp(err, "message")
            IN OrElse(left, Str("Upstream error"))

\* variant: the catch block drops the text of the thrown value
CatchResult_NoText(e) ==
    [response |-> NoResponse,
     error |-> ErrorResponse(502,
        [t |-> "concat", parts |-> <<"Upstream ChatGPT request failed: ", "">>])]

\* the catch block: status 502, the text of whatever was thrown
CatchResult(e) ==
    [response |-> NoResponse,
     error |-> ErrorResponse(502,
        [t |-> "concat",
         parts |-> <<"Upstream ChatGPT request failed: ",
                     IF e.t = "Error" THEN e.message ELSE ToStr(e)>>])]

\* variant: the failure mirrors the status of the latest response
UpstreamErrorResult_RetryStatus(body, status) ==
    LET m == ErrorMessage(body)
        st == IF retryResponse.t = "Response" THEN retryResponse.status ELSE status
    IN IF IsThrown(m) THEN CatchResult(m.e)
       ELSE [response |-> NoResponse, error |-> ErrorResponse(st, m)]

\* the return of lines 195-205, inside the try block: evaluating the message
\* may itself throw, which the catch block turns into a 502
UpstreamErrorResult(body, status) ==
    LET m == ErrorMessage(body)
    IN IF IsThrown(m) THEN CatchResult(m.e)
       ELSE [response |-> NoResponse, error |-> ErrorResponse(status, m)]

\* variant: a success that also carries an error response
SuccessResult_Both(resp) == [response |-> resp, error |-> ErrorResponse(resp.status, Str(""))]

SuccessResult(resp) == [response |-> resp, error |-> NoResponse]

\* ------------------------------------------------------ the invocation
NoResult == [t |-> "pending"]
NoException == [t |-> "none"]

\* one call to a collaborator and what it answered
Call(name, out) == [call |-> name, out |-> out]

Request(url, hdrs, body) == [method |-> "POST", url |-> url, headers |-> hdrs, body |-> body]

\* no call of getInstructionsForModel is in progress
InstrIdle ==
    /\ instrModel = <<>>
    /\ instrPc = "idle"
    /\ instrFetches = <<>>
    /\ instrResult = Undef

\* no concurrent invocations are in progress
ConcIdle ==
    /\ store = Undef
    /\ inv = <<>>

\* the locals of an invocation that has not run yet
Blank ==
    /\ pc = "acquire"
    /\ accessToken = Undef
    /\ accountId = Undef
    /\ sessionId = Undef
    /\ requestUrl = Undef
    /\ requestBody = Undef
    /\ headers = EmptyFields
    /\ upstreamResponse = NoResponse
    /\ errorBody = Undef
    /\ refreshedTokens = Undef
    /\ retryResponse = NoResponse
    /\ result = NoResult
    /\ exception = NoException
    /\ sent = <<>>
    /\ log = <<>>

Init ==
    /\ env \in Envs
    /\ model \in Models
    /\ inputItems \in InputItemsSet
    /\ options \in OptionsSet
    /\ Blank
    /\ InstrIdle
    /\ ConcIdle

args == <<env, model, inputItems, options>>
shaped == <<sessionId, requestUrl, requestBody, headers>>

\* return res
Return(res) ==
    /\ result' = res
    /\ pc' = "done"

\* line 46: const { accessToken, accountId } = await getRefreshedAuth(env)
\* The call stands before the try block: a rejection leaves the function.
AcquireCredentials ==
    /\ pc = "acquire"
    /\ \E out \in AuthOutcomes :
        /\ log' = Append(log, Call("getRefreshedAuth", out))
        /\ IF IsThrown(out)
           THEN /\ exception' = out.e
                /\ pc' = "rejected"
                /\ UNCHANGED <<accessToken, accountId>>
           ELSE /\ accessToken' = out.accessToken
                /\ accountId' = out.accountId
                /\ pc' = "check"
                /\ UNCHANGED exception
    /\ UNCHANGED <<others, args, shaped, upstreamResponse, errorBody, refreshedTokens,
                   retryResponse, result, sent>>

\* lines 49-74: the KV debug read (its outcome is only logged, a throw is
\* caught) and the test for missing credentials
CheckCredentials ==
    /\ pc = "check"
    /\ log' = IF env.KV THEN Append(log, Call("KV.get", Undef)) ELSE log
    /\ IF MissingCredentials(accessToken, accountId)
       THEN Return(MissingCredentialsResult)
       ELSE /\ pc' = "shape"
            /\ UNCHANGED result
    /\ UNCHANGED <<others, args, accessToken, accountId, shaped, upstreamResponse, errorBody,
                   refreshedTokens, retryResponse, exception, sent>>

\* lines 76-122: session fingerprint, base instructions, body and headers
Shape ==
    /\ pc = "shape"
    /\ \E fetched \in BaseFetchOutcomes :
        LET isOllama == IsOllamaRequest(options)
            sid == IF isOllama THEN Undef
                   ELSE generateSessionId(options.instructions, inputItems)
            base == getBaseInstructions(fetched)
        IN /\ sessionId' = sid
           /\ requestUrl' = RequestUrl(env, options)
           /\ requestBody' = RequestBody(env, model, inputItems, options, sid, base)
           /\ headers' = FirstHeaders(isOllama, accessToken, accountId, sid)
           /\ log' = Append(log, Call("getBaseInstructions", fetched))
    /\ pc' = "send"
    /\ UNCHANGED <<others, args, accessToken, accountId, upstreamResponse, errorBody,
                   refreshedTokens, retryResponse, result, exception, sent>>

\* what follows a non-ok first response once its body has been read
AfterErrorBody(status, e) == IF ShouldRefresh(status, e) THEN "refresh" ELSE "fail"

\* lines 132-153: the first send; an ok response is returned untouched, the
\* body of a non-ok response is read as JSON
Send ==
    /\ pc = "send"
    /\ sent' = Append(sent, Request(requestUrl, headers, requestBody))
    /\ \/ \E e \in Failures :
            /\ log' = Append(log, Call("fetch", Thrown(e)))
            /\ Return(CatchResult(e))
            /\ UNCHANGED <<upstreamResponse, errorBody>>
       \/ \E st \in Statuses, txt \in StatusTexts :
            LET resp == Resp(Len(sent) + 1, st, txt)
            IN IF Ok(st)
               THEN /\ log' = Append(log, Call("fetch", resp))
                    /\ upstreamResponse' = resp
                    /\ Return(SuccessResult(resp))
                    /\ UNCHANGED errorBody
               ELSE \E parsed \in ErrorBodies :
                    /\ log' = log \o <<Call("fetch", resp), Call("json", parsed)>>
                    /\ upstreamResponse' = [resp EXCEPT !.bodyUsed = TRUE]
                    /\ errorBody' = ReadErrorBody(parsed, txt)
                    /\ pc' = AfterErrorBody(st, env)
                    /\ UNCHANGED result
    /\ UNCHANGED <<others, args, accessToken, accountId, shaped, refreshedTokens,
                   retryResponse, exception>>

\* lines 158-175: the forced refresh and the headers of the retry
ForceRefresh ==
    /\ pc = "refresh"
    /\ \E out \in RefreshOutcomes :
        /\ log' = Append(log, Call("refreshAccessToken", out))
        /\ IF IsThrown(out)
           THEN /\ Return(CatchResult(out.e))
                /\ UNCHANGED <<refreshedTokens, headers>>
           ELSE /\ refreshedTokens' = out
                /\ IF RefreshSucceeded(out)
                   THEN /\ headers' = RetryHeaders(IsOllamaRequest(options), out,
                                                   accountId, sessionId)
                        /\ pc' = "retry"
                   ELSE /\ pc' = "fail"
                        /\ UNCHANGED headers
                /\ UNCHANGED result
    /\ UNCHANGED <<others, args, accessToken, accountId, sessionId, requestUrl, requestBody,
                   upstreamResponse, errorBody, retryResponse, exception, sent>>

\* variant: the retry branch hands back the first response
RetryReturn_First(retry) == SuccessResult(upstreamResponse)

\* lines 183-185: return { response: retryResponse, error: null }
RetryReturn(retry) == SuccessResult(retry)

\* variant: a 401 answer to the retry starts another refresh round
AfterRetry_Again(status, e) == IF ShouldRefresh(status, e) THEN "refresh" ELSE "fail"

\* what follows a non-ok answer to the retry
AfterRetry(status, e) == "fail"

\* lines 177-189: the retry
RetrySend ==
    /\ pc = "retry"
    /\ sent' = Append(sent, Request(requestUrl, headers, requestBody))
    /\ \/ \E e \in Failures :
            /\ log' = Append(log, Call("fetch", Thrown(e)))
            /\ Return(CatchResult(e))
            /\ UNCHANGED retryResponse
       \/ \E st \in Statuses, txt \in StatusTexts :
            LET resp == Resp(Len(sent) + 1, st, txt)
            IN /\ log' = Append(log, Call("fetch", resp))
               /\ retryResponse' = resp
               /\ IF Ok(st)
                  THEN Return(RetryReturn(resp))
                  ELSE /\ pc' = AfterRetry(st, env)
                       /\ UNCHANGED result
    /\ UNCHANGED <<others, args, accessToken, accountId, shaped, upstreamResponse, errorBody,
                   refreshedTokens, exception>>

\* lines 195-205: the failure built from the first response and its body
Fail ==
    /\ pc = "fail"
    /\ Return(UpstreamErrorResult(errorBody, upstreamResponse.status))
    /\ UNCHANGED <<others, args, accessToken, accountId, shaped, upstreamResponse, errorBody,
                   refreshedTokens, retryResponse, exception, sent, log>>

Next ==
    \/ AcquireCredentials
    \/ CheckCredentials
    \/ Shape
    \/ Send
    \/ ForceRefresh
    \/ RetrySend
    \/ Fail

Spec == Init /\ [][Next]_vars

\* ----------------------------------------------- getInstructionsForModel
InitInstr ==
    /\ instrModel \in ModelNames
    /\ instrPc = "call"
    /\ instrFetches = <<>>
    /\ instrResult = Undef
    /\ env = PlainEnv
    /\ model \in Models
    /\ inputItems = Arr(<<>>)
    /\ options = NoOptions
    /\ Blank
    /\ ConcIdle

\* lines 48-53: the choice between the two prompt files
GetInstructionsForModel ==
    /\ instrPc = "call"
    /\ instrPc' = IF shouldUseGpt5CodexInstructions(instrModel) THEN "codex" ELSE "base"
    /\ UNCHANGED <<mainVars, concVars, instrModel, instrFetches, instrResult>>

\* lines 19-33: getGpt5CodexInstructions up to its catch block
FetchCodexInstructions ==
    /\ instrPc = "codex"
    /\ \E fetched \in InstrFetchOutcomes :
        /\ instrFetches' = Append(instrFetches, [url |-> CodexPromptUrl, out |-> fetched])
        /\ IF CodexFetchFailed(fetched)
           THEN /\ instrPc' = "base"
                /\ UNCHANGED instrResult
           ELSE /\ instrResult' = Str(fetched.text)
                /\ instrPc' = "done"
    /\ UNCHANGED <<mainVars, concVars, instrModel>>

\* lines 2-16: getBaseInstructions
FetchBaseInstructions ==
    /\ instrPc = "base"
    /\ \E fetched \in InstrFetchOutcomes :
        /\ instrFetches' = Append(instrFetches, [url |-> BasePromptUrl, out |-> fetched])
        /\ instrResult' = getBaseInstructions(fetched)
        /\ instrPc' = "done"
    /\ UNCHANGED <<mainVars, concVars, instrModel>>

NextInstr ==
    \/ GetInstructionsForModel
    \/ FetchCodexInstructions
    \/ FetchBaseInstructions

SpecInstr == InitInstr /\ [][NextInstr]_vars

\* -------------------------- concurrent invocations, one credential store
\* Two invocations of startUpstreamRequest run interleaved at their await
\* points over the credential store owned by the gateway (auth_kv). Each
\* keeps its own locals; the steps are those of the single invocation.
Invocations == {"A", "B"}

\* the gateway mints the next access token and stores it
Mint(st) ==
    [accessToken |-> Str("tok" \o ToString(st.minted + 1)),
     accountId |-> st.accountId,
     minted |-> st.minted + 1]

\* getRefreshedAuth(env): the stored pair, after a transparent refresh when
\* the gateway deems the token expired, or a rejection
GetRefreshedAuthOutcomes(st) ==
    { [out |-> [t |-> "auth", accessToken |-> st.accessToken, accountId |-> st.accountId],
       store |-> st] }
    \cup (IF st.minted < MaxMint
          THEN { [out |-> [t |-> "auth", accessToken |-> Mint(st).accessToken,
                           accountId |-> Mint(st).accountId],
                  store |-> Mint(st)] }
          ELSE {})
    \cup { [out |-> Thrown(ErrorOf("auth store unavailable")), store |-> st] }

\* refreshAccessToken(env): a newly minted pair, written to the store, or
\* null, or a rejection
RefreshAccessTokenOutcomes(st) ==
    { [out |-> Null, store |-> st],
      [out |-> Thrown(ErrorOf("refresh failed")), store |-> st] }
    \cup (IF st.minted < MaxMint
          THEN { [out |-> Obj([access_token |-> Mint(st).accessToken,
                               account_id |-> Mint(st).accountId]),
                  store |-> Mint(st)] }
          ELSE {})

ConcStatuses == {200, 401}
ConcFailures == { ErrorOf("network down") }
ConcErrorBodies == { Obj([error |-> Obj([message |-> Str("boom")])]) }

\* the locals of one invocation before its first step
BlankInvocation ==
    [pc |-> "acquire", accessToken |-> Undef, accountId |-> Undef,
     sessionId |-> Undef, requestUrl |-> Undef, requestBody |-> Undef,
     headers |-> EmptyFields, upstreamResponse |-> NoResponse, errorBody |-> Undef,
     refreshedTokens |-> Undef, retryResponse |-> NoResponse,
     result |-> NoResult, exception |-> NoException,
     sent |-> <<>>, calls |-> <<>>]

InitConc ==
    /\ env \in { e \in Envs : ~e.KV }
    /\ model \in Models
    /\ inputItems = Arr(<<Num(1)>>)
    /\ options = [NoOptions EXCEPT !.instructions = Text(<<"s", "y", "s">>)]
    /\ accessToken = Undef
    /\ accountId = Undef
    /\ sessionId = Undef
    /\ requestUrl = Undef
    /\ requestBody = Undef
    /\ headers = EmptyFields
    /\ upstreamResponse = NoResponse
    /\ errorBody = Undef
    /\ refreshedTokens = Undef
    /\ retryResponse = NoResponse
    /\ result = NoResult
    /\ exception = NoException
    /\ sent = <<>>
    /\ log = <<>>
    /\ pc = "idle"
    /\ InstrIdle
    /\ store = [accessToken |-> Str("tok0"), accountId |-> Str("acct1"), minted |-> 0]
    /\ inv = [i \in Invocations |-> BlankInvocation]

\* a step of invocation i: its locals become r, nothing of the others moves
Becomes(i, r) ==
    /\ inv' = [inv EXCEPT ![i] = r]
    /\ UNCHANGED <<mainVars, instrVars>>

\* a request as handed to fetch, with the number of tokens minted so far
Outgoing(me) == [req |-> Request(me.requestUrl, me.headers, me.requestBody),
                 minted |-> store.minted]

\* a response to invocation i
RespTo(i, id, status) == [to |-> i] @@ Resp(id, status, "")

\* line 46
CAcquire(i) ==
    /\ inv[i].pc = "acquire"
    /\ \E o \in GetRefreshedAuthOutcomes(store) :
        /\ store' = o.store
        /\ Becomes(i,
             IF IsThrown(o.out)
             THEN [inv[i] EXCEPT !.pc = "rejected", !.exception = o.out.e,
                                 !.calls = Append(@, Call("getRefreshedAuth", o.out))]
             ELSE [inv[i] EXCEPT !.pc = "check",
                                 !.accessToken = o.out.accessToken,
                                 !.accountId = o.out.accountId,
                                 !.calls = Append(@, Call("getRefreshedAuth", o.out))])

\* lines 62-74
CCheck(i) ==
    /\ inv[i].pc = "check"
    /\ Becomes(i,
         IF MissingCredentials(inv[i].accessToken, inv[i].accountId)
         THEN [inv[i] EXCEPT !.pc = "done", !.result = MissingCredentialsResult]
         ELSE [inv[i] EXCEPT !.pc = "shape"])
    /\ UNCHANGED store

\* lines 76-122
CShape(i) ==
    /\ inv[i].pc = "shape"
    /\ \E fetched \in BaseFetchOutcomes :
        LET me == inv[i]
            isOllama == IsOllamaRequest(options)
            sid == IF isOllama THEN Undef
                   ELSE generateSessionId(options.instructions, inputItems)
        IN Becomes(i,
             [me EXCEPT !.pc = "send",
                        !.sessionId = sid,
                        !.requestUrl = RequestUrl(env, options),
                        !.requestBody = RequestBody(env, model, inputItems, options, sid,
                                                    getBaseInstructions(fetched)),
                        !.headers = FirstHeaders(isOllama, me.accessToken,
                                                 me.accountId, sid)])
    /\ UNCHANGED store

\* lines 132-153
CSend(i) ==
    /\ inv[i].pc = "send"
    /\ LET me == [inv[i] EXCEPT !.sent = Append(@, Outgoing(inv[i]))]
       IN \/ \E e \in ConcFailures :
               Becomes(i, [me EXCEPT !.pc = "done", !.result = CatchResult(e)])
          \/ \E st \in ConcStatuses :
               LET resp == RespTo(i, Len(me.sent), st)
               IN IF Ok(st)
                  THEN Becomes(i, [me EXCEPT !.pc = "done", !.upstreamResponse = resp,
                                             !.result = SuccessResult(resp)])
                  ELSE \E parsed \in ConcErrorBodies :
                       Becomes(i, [me EXCEPT
                                     !.pc = AfterErrorBody(st, env),
                                     !.upstreamResponse = [resp EXCEPT !.bodyUsed = TRUE],
                                     !.errorBody = ReadErrorBody(parsed, "")])
    /\ UNCHANGED store

\* lines 158-175
CRefresh(i) ==
    /\ inv[i].pc = "refresh"
    /\ \E o \in RefreshAccessTokenOutcomes(store) :
        LET me == [inv[i] EXCEPT !.calls = Append(@, Call("refreshAccessToken", o.out))]
        IN /\ store' = o.store
           /\ Becomes(i,
                IF IsThrown(o.out)
                THEN [me EXCEPT !.pc = "done", !.result = CatchResult(o.out.e)]
                ELSE IF RefreshSucceeded(o.out)
                THEN [me EXCEPT !.pc = "retry", !.refreshedTokens = o.out,
                                !.headers = RetryHeaders(IsOllamaRequest(options), o.out,
                                                         me.accountId, me.sessionId)]
                ELSE [me EXCEPT !.pc = "fail", !.refreshedTokens = o.out])

\* lines 177-189
CRetry(i) ==
    /\ inv[i].pc = "retry"
    /\ LET me == [inv[i] EXCEPT !.sent = Append(@, Outgoing(inv[i]))]
       IN \/ \E e \in ConcFailures :
               Becomes(i, [me EXCEPT !.pc = "done", !.result = CatchResult(e)])
          \/ \E st \in ConcStatuses :
               LET resp == RespTo(i, Len(me.sent), st)
               IN IF Ok(st)
                  THEN Becomes(i, [me EXCEPT !.pc = "done", !.retryResponse = resp,
                                             !.result = SuccessResult(resp)])
                  ELSE Becomes(i, [me EXCEPT !.pc = AfterRetry(st, env),
                                             !.retryResponse = resp])
    /\ UNCHANGED store

\* lines 195-205
CFail(i) ==
    /\ inv[i].pc = "fail"
    /\ Becomes(i, [inv[i] EXCEPT
                     !.pc = "done",
                     !.result = UpstreamErrorResult(inv[i].errorBody,
                                                    inv[i].upstreamResponse.status)])
    /\ UNCHANGED store

\* any step of invocation i
CStep(i) ==
    \/ CAcquire(i)
    \/ CCheck(i)
    \/ CShape(i)
    \/ CSend(i)
    \/ CRefresh(i)
    \/ CRetry(i)
    \/ CFail(i)

NextConc ==
    \/ \E i \in Invocations : CAcquire(i)
    \/ \E i \in Invocations : CCheck(i)
    \/ \E i \in Invocations : CShape(i)
    \/ \E i \in Invocations : CSend(i)
    \/ \E i \in Invocations : CRefresh(i)
    \/ \E i \in Invocations : CRetry(i)
    \/ \E i \in Invocations : CFail(i)

SpecConc == InitConc /\ [][NextConc]_vars

\* ------------------------------------------------- request shaping alone
\* The same invocation up to the shaped request, over a wider set of caller
\* options: every kind of toolChoice and reasoningParam, and instruction and
\* input texts built from characters that matter to the fingerprint.
ToolChoices ==
    { Undef, Null, Str("auto"), Str("none"), Str("bogus"), Str(""), Bool(TRUE),
      FunctionChoice,
      Obj(EmptyFields),
      Obj([type |-> Str("function")]),
      Obj([function |-> Obj([name |-> Str("foo")])]),
      Arr(<<>>),
      Arr(<<Str("auto")>>) }

ReasoningParams ==
    { Undef,
      Obj(EmptyFields),
      Obj([summary |-> Str("auto")]),
      Obj([effort |-> Str("none")]),
      Obj([effort |-> Str("none"), summary |-> Str("auto")]),
      Obj([effort |-> Str("None")]),
      Obj([effort |-> Str("")]),
      Obj([effort |-> Str("minimal")]),
      Obj([effort |-> Str("high"), summary |-> Str("auto")]) }

ShapeOptionsSet ==
    { [NoOptions EXCEPT !.toolChoice = tc] : tc \in ToolChoices }
    \cup { [NoOptions EXCEPT !.reasoningParam = rp] : rp \in ReasoningParams }
    \cup { [NoOptions EXCEPT !.ollamaPath = Str("/api/chat"), !.toolChoice = tc,
                             !.reasoningParam = Obj([effort |-> Str("none")])] :
             tc \in {Str("none"), Obj(EmptyFields)} }

\* characters of instruction and item texts: a letter, the separator of the
\* fingerprint content and the quote that JSON escapes
FpAlphabet == { "a", "|", "\"" }

FpTexts(maxLen) ==
    UNION { [1..n -> FpAlphabet] : n \in 0..maxLen }

FpInstructions == { Text(c) : c \in FpTexts(MaxInstrLen) \ {<<>>} }

FpItems == { Text(<<>>), Text(<<"|">>), Text(<<"\"">>), Num(1) }

FpInputs ==
    { Arr(<<>>) } \cup { Arr(<<x>>) : x \in FpItems }
    \cup { Arr(<<x, y>>) : x \in FpItems, y \in FpItems }

FpOptionsSet == { [NoOptions EXCEPT !.instructions = i] : i \in FpInstructions }

InitShape ==
    /\ model \in Models
    /\ \/ /\ env \in Envs
          /\ options \in ShapeOptionsSet
          /\ inputItems \in InputItemsSet
       \/ /\ env = PlainEnv
          /\ options \in FpOptionsSet
          /\ inputItems \in FpInputs
    /\ Blank
    /\ InstrIdle
    /\ ConcIdle

NextShape ==
    \/ AcquireCredentials
    \/ CheckCredentials
    \/ Shape

SpecShape == InitShape /\ [][NextShape]_vars

\* ------------------------------------------------------------ properties
TypeOK ==
    /\ pc \in {"acquire", "rejected", "check", "shape", "send", "refresh", "retry",
               "fail", "done"}
    /\ (pc = "done") <=> (result # NoResult)
    /\ (pc = "rejected") <=> (exception # NoException)

\* the calls made so far, by name
Calls(name) == SelectSeq(log, LAMBDA c : c.call = name)
NCalls(name) == Len(Calls(name))
Positions(name) == { i \in 1..Len(log) : log[i].call = name }

\* the accessor has answered with a pair (it did not reject)
AuthReturned == pc \notin {"acquire", "rejected"}

\* the message carried by an error response
MessageOf(resp) == resp.body.f.error.f.message

\* the text the catch block is documented to append for a thrown value
TextOf(e) == IF e.t = "Error" THEN e.message ELSE e.v

\* error.message of a parsed body "if present, else Upstream error"; an empty
\* message may be read either way
HasMessage(body) ==
    /\ body.t = "obj" /\ "error" \in DOMAIN body.f
    /\ body.f.error.t = "obj" /\ "message" \in DOMAIN body.f.error.f

DocumentedMessages(body) ==
    IF HasMessage(body)
    THEN IF body.f.error.f.message = Str("")
         THEN {Str(""), Str("Upstream error")}
         ELSE {body.f.error.f.message}
    ELSE {Str("Upstream error")}

\* the failure documented for a non-ok first response: no response, the
\* upstream status, the message of the body read from that response
IsDocumentedFailure(res, status, body) ==
    /\ res.response = NoResponse
    /\ res.error # NoResponse
    /\ res.error.status = status
    /\ MessageOf(res.error) \in DocumentedMessages(body)

FirstIs401WithRefresh ==
    /\ upstreamResponse # NoResponse
    /\ upstreamResponse.status = 401
    /\ env.OPENAI_CODEX_AUTH # Undef

\* C1: when the accessor answers with a missing or empty token or account id,
\* for either target kind, the invocation ends with response = null and a 401
\* error with the fixed message, and no fetch of the target, no fetch of the
\* base instructions and no forced refresh happens.
C1_MissingCredentials ==
    (AuthReturned /\ (Falsy(accessToken) \/ Falsy(accountId)))
        => /\ pc \in {"check", "done"}
           /\ sent = <<>>
           /\ \A i \in 1..Len(log) : log[i].call \in {"getRefreshedAuth", "KV.get"}
           /\ pc = "done" =>
                /\ result.response = NoResponse
                /\ result.error.status = 401
                /\ MessageOf(result.error)
                     = Str("Missing ChatGPT credentials. Run 'codex login' first")

C1_Witness ==
    /\ pc = "done"
    /\ Truthy(accessToken) /\ Falsy(accountId)
    /\ Truthy(options.ollamaPath)
    /\ result.error.status = 401

\* C2: a 401, a configured refresh that returns new credentials and a retry
\* answered 2xx give a success whose response is the retry's response, with
\* error = null; the first (401) response is not returned.
C2_RetrySuccess ==
    (/\ pc = "done"
     /\ FirstIs401WithRefresh
     /\ refreshedTokens.t = "obj"
     /\ retryResponse # NoResponse
     /\ Ok(retryResponse.status))
        => /\ result.error = NoResponse
           /\ result.response = retryResponse
           /\ result.response.id = 2
           /\ result.response # upstreamResponse
           /\ Ok(result.response.status)

C2_Witness ==
    /\ pc = "done"
    /\ FirstIs401WithRefresh
    /\ refreshedTokens = Obj([access_token |-> Str("tok2"), account_id |-> Str("acct2")])
    /\ retryResponse # NoResponse /\ retryResponse.status = 200
    /\ result.response = retryResponse

\* C3 (as claimed): a 401, a configured refresh and a forced refresh that
\* returns none give no second request and a 401 failure whose message is the
\* original body's error.message, or "Upstream error" when it has none.
C3_RefreshNone_Claimed ==
    (/\ pc = "done"
     /\ FirstIs401WithRefresh
     /\ refreshedTokens = Null)
        => /\ Len(sent) = 1
           /\ IsDocumentedFailure(result, 401, errorBody)

\* C4: when the first send throws, the invocation ends with response = null
\* and a 502 error whose message is "Upstream ChatGPT request failed"
\* followed by the text of the thrown value; no forced refresh and no second
\* send happen.
C4_TransportFailure ==
    (/\ pc = "done"
     /\ NCalls("fetch") >= 1
     /\ IsThrown(Calls("fetch")[1].out))
        => /\ result.response = NoResponse
           /\ result.error.status = 502
           /\ MessageOf(result.error).t = "concat"
           /\ MessageOf(result.error).parts[1] = "Upstream ChatGPT request failed: "
           /\ MessageOf(result.error).parts[2] = TextOf(Calls("fetch")[1].out.e)
           /\ NCalls("refreshAccessToken") = 0
           /\ Len(sent) = 1

C4_Witness ==
    /\ pc = "done"
    /\ NCalls("fetch") = 1
    /\ Calls("fetch")[1].out = Thrown(Str("aborted"))
    /\ result.error.status = 502

\* C5 (as claimed): an invocation never ends by rejecting with a raw
\* exception, whichever collaborator fails.
C5_NeverRejects_Claimed == pc # "rejected" /\ exception = NoException

\* C6: every returned result has exactly one of response and error non-null.
C6_ExactlyOne ==
    pc = "done" =>
        /\ DOMAIN result = {"response", "error"}
        /\ (result.response = NoResponse) # (result.error = NoResponse)

C6_Witness ==
    /\ pc = "done"
    /\ result.response # NoResponse
    /\ result.error = NoResponse
    /\ Len(sent) = 1

\* C7: within one invocation the forced refresh is called at most once and
\* at most two requests are sent; the accessor is called before the first
\* send, the forced refresh comes after the first response and before the
\* second send, and nothing follows the answer to the second send.
C7_AtMostOneRetry ==
    /\ NCalls("refreshAccessToken") <= 1
    /\ NCalls("fetch") <= 2
    /\ Len(sent) = NCalls("fetch")
    /\ \A i \in Positions("fetch") :
         /\ log[1].call = "getRefreshedAuth"
         /\ i > 1
    /\ \A r \in Positions("refreshAccessToken") :
         /\ \E i \in Positions("fetch") :
              /\ i < r
              /\ log[i].out.t = "Response"
              /\ log[i].out.id = 1
         /\ Cardinality({ i \in Positions("fetch") : i < r }) = 1
    /\ NCalls("fetch") = 2 =>
         /\ NCalls("refreshAccessToken") = 1
         /\ log[Len(log)].call = "fetch"
         /\ \A r \in Positions("refreshAccessToken") : r = Len(log) - 1
    /\ (NCalls("fetch") = 2 /\ pc # "done") => pc = "fail"

C7_Witness ==
    /\ pc = "done"
    /\ NCalls("fetch") = 2
    /\ NCalls("refreshAccessToken") = 1
    /\ retryResponse # NoResponse
    /\ retryResponse.status = 401

\* C8 (as claimed): for a non-2xx first response that is not a 401 with a
\* configured refresh, and for every body, the result is a failure with the
\* upstream status and the body's error.message, else "Upstream error".
C8_UpstreamRejected_Claimed ==
    (/\ pc = "done"
     /\ upstreamResponse # NoResponse
     /\ ~Ok(upstreamResponse.status)
     /\ ~(upstreamResponse.status = 401 /\ env.OPENAI_CODEX_AUTH # Undef))
        => IsDocumentedFailure(result, upstreamResponse.status, errorBody)

\* C9 (as claimed): after a 401 and a forced refresh that returned new
\* credentials, a retry that fails in any way (non-2xx, or a thrown transport
\* error) gives a failure with the original status 401 and the message of the
\* original body.
C9_RetryFails_Claimed ==
    (/\ pc = "done"
     /\ FirstIs401WithRefresh
     /\ NCalls("fetch") = 2
     /\ \/ IsThrown(Calls("fetch")[2].out)
        \/ ~Ok(Calls("fetch")[2].out.status))
        => IsDocumentedFailure(result, 401, errorBody)

\* C10 (as claimed): when the forced refresh returns a value whose access
\* token or account id is missing or empty, no retry request is sent and the
\* invocation ends with the original 401 failure.
C10_IncompleteRefresh_Claimed ==
    (/\ refreshedTokens.t = "obj"
     /\ \/ Falsy(GetProp(refreshedTokens, "access_token"))
        \/ Falsy(GetProp(refreshedTokens, "account_id")))
        => /\ Len(sent) <= 1
           /\ pc = "done" => (result.error # NoResponse /\ result.error.status = 401)

\* the target is the alternate backend
IsAlternate == options.ollamaPath # Undef /\ options.ollamaPath # Str("")

PrimaryOnlyFields == {"tool_choice", "parallel_tool_calls", "reasoning"}

\* C13: for the alternate backend every request sent (first send and retry)
\* carries exactly one header, Content-Type: application/json; no session
\* fingerprint is computed, the URL is the configured base followed by the
\* path, and the body is the caller's payload without primary-only fields.
C13_AlternateShape ==
    IsAlternate =>
        /\ sessionId = Undef
        /\ \A i \in 1..Len(sent) :
             /\ DOMAIN sent[i].headers = {"ContentType"}
             /\ sent[i].headers.ContentType = "application/json"
             /\ sent[i].url.parts = <<env.OLLAMA_API_URL.v, options.ollamaPath.v>>
             /\ IF options.ollamaPayload = Undef
                THEN sent[i].body = Undef
                ELSE /\ sent[i].body.of = options.ollamaPayload.f
                     /\ DOMAIN sent[i].body.of \cap PrimaryOnlyFields = {}

C13_Witness ==
    /\ IsAlternate
    /\ options.toolChoice = FunctionChoice
    /\ Len(sent) = 2
    /\ pc = "done"

\* C16: the forced refresh is called iff the first response is a 401 and a
\* refresh mechanism is configured; for any other first response it is never
\* called and exactly one request is sent.
C16_RefreshIff ==
    /\ NCalls("refreshAccessToken") >= 1 => FirstIs401WithRefresh
    /\ (pc = "done" /\ FirstIs401WithRefresh) => NCalls("refreshAccessToken") = 1
    /\ (pc = "done" /\ upstreamResponse # NoResponse /\ ~FirstIs401WithRefresh)
         => /\ NCalls("refreshAccessToken") = 0
            /\ Len(sent) = 1

C16_Witness ==
    /\ pc = "done"
    /\ NCalls("refreshAccessToken") = 1
    /\ refreshedTokens = Null
    /\ Len(sent) = 1

\* C17 (as claimed): a retry has the URL and body of the first send, and for
\* the primary backend its Authorization carries the access token returned by
\* the forced refresh, its account header the refreshed account id, and every
\* other header is the one of the first send.
C17_RetryFrame_Claimed ==
    Len(sent) = 2 =>
        /\ sent[2].url = sent[1].url
        /\ sent[2].body = sent[1].body
        /\ DOMAIN sent[2].headers = DOMAIN sent[1].headers
        /\ ~IsAlternate =>
             /\ sent[2].headers.Authorization
                  = <<"Bearer ", ToStr(refreshedTokens.f.access_token)>>
             /\ sent[2].headers.ChatgptAccountId = refreshedTokens.f.account_id
             /\ \A h \in DOMAIN sent[1].headers \ {"Authorization", "ChatgptAccountId"} :
                  sent[2].headers[h] = sent[1].headers[h]

\* C20: a non-null response in the result has a 2xx status, answers the last
\* request sent and has not had its body read; a non-null error has status
\* 401, 502 or the status of the first upstream response, never the status of
\* the answer to the retry.
C20_ResultStatus ==
    pc = "done" =>
        /\ result.response # NoResponse =>
             /\ Ok(result.response.status)
             /\ result.response.id = Len(sent)
             /\ result.response = log[Len(log)].out
             /\ result.response.bodyUsed = FALSE
        /\ result.error # NoResponse =>
             /\ result.error.status \in
                  {401, 502} \cup (IF upstreamResponse = NoResponse THEN {}
                                   ELSE {upstreamResponse.status})
             /\ retryResponse # NoResponse => result.error.status \in {401, 502}

C20_Witness ==
    /\ pc = "done"
    /\ retryResponse # NoResponse
    /\ retryResponse.status = 500
    /\ result.error # NoResponse
    /\ result.error.status = 401

\* the request of the primary backend has been shaped
PrimaryShaped == pc = "send" /\ ~IsAlternate

\* a well-formed structured choice {type, function: {name}}
WellFormedChoice(v) ==
    /\ v.t = "obj"
    /\ DOMAIN v.f = {"type", "function"}
    /\ v.f.type.t = "str"
    /\ v.f.function.t = "obj"
    /\ "name" \in DOMAIN v.f.function.f
    /\ v.f.function.f.name.t = "str"

\* C11 (as claimed): for the primary backend tool_choice is the caller's
\* toolChoice when that is "auto", "none" or a well-formed structured choice,
\* and "auto" for every other value.
C11_ToolChoice_Claimed ==
    PrimaryShaped =>
        requestBody.of.tool_choice =
            IF \/ options.toolChoice \in {Str("auto"), Str("none")}
               \/ WellFormedChoice(options.toolChoice)
            THEN options.toolChoice
            ELSE Str("auto")

\* C12: for the primary backend include is empty when reasoningParam.effort is
\* exactly "none" and holds "reasoning.encrypted_content" once, and nothing
\* else, otherwise (other effort, no effort, no reasoningParam); the body has
\* a reasoning field iff a reasoningParam was supplied.
C12_Include ==
    PrimaryShaped =>
        /\ requestBody.of.include.items =
             IF /\ options.reasoningParam # Undef
                /\ "effort" \in DOMAIN options.reasoningParam.f
                /\ options.reasoningParam.f.effort = Str("none")
             THEN <<>>
             ELSE <<"reasoning.encrypted_content">>
        /\ ("reasoning" \in DOMAIN requestBody.of) <=> (options.reasoningParam # Undef)
        /\ options.reasoningParam # Undef =>
             requestBody.of.reasoning = options.reasoningParam

C12_Witness ==
    /\ PrimaryShaped
    /\ options.reasoningParam = Obj([summary |-> Str("auto")])
    /\ requestBody.of.include.items = <<"reasoning.encrypted_content">>

\* C14: for pairs with non-empty instructions the hashed content
\* (instructions, "|", serialized input) of two pairs is equal iff the pairs
\* are equal: the fingerprint of the shaped request matches that of a pair
\* (i, x) exactly when (i, x) is the pair of this invocation.
C14_FingerprintInjective ==
    (PrimaryShaped /\ options \in FpOptionsSet) =>
        \A i \in FpInstructions, x \in FpInputs :
            (generateSessionId(i, x) = sessionId)
                <=> (i = options.instructions /\ x = inputItems)

C14_Witness ==
    /\ PrimaryShaped
    /\ options.instructions = Text(<<"a", "|">>)
    /\ inputItems = Arr(<<Text(<<"\"">>), Text(<<"|">>)>>)
    /\ sessionId.sha256 =
         <<"a", "|", "|", "[", "\"", "\\", "\"", "\"", ",", "\"", "|", "\"", "]">>

\* the model names of the codex family: "gpt-5-codex..." and "codex-..."
CodexFamily ==
    { <<"g", "p", "t", "-", "5", "-", "c", "o", "d", "e", "x">>,
      <<"g", "p", "t", "-", "5", "-", "c", "o", "d", "e", "x", "-", "h", "i", "g", "h">>,
      <<"c", "o", "d", "e", "x", "-", "m", "i", "n", "i">> }

\* what one fetch delivered: the text, or nothing
Fetched(f) == f.out.t = "Response" /\ f.out.ok /\ ~f.out.bodyFails

BaseOutcome(f) ==
    /\ f.url = BasePromptUrl
    /\ instrResult = IF Fetched(f) THEN Str(f.out.text) ELSE Str(FallbackInstructions)

\* C15: instruction retrieval always ends with a string after at most two
\* fetches: for a model of the codex family the codex prompt is fetched first
\* and, when that fails, the base prompt is fetched, with the built-in
\* fallback when that fails too; every other model fetches the base prompt
\* only.
C15_InstructionsNeverFail ==
    /\ instrPc \in {"idle", "call", "codex", "base", "done"}
    /\ Len(instrFetches) <= 2
    /\ instrPc = "done" =>
        /\ instrResult.t = "str"
        /\ IF instrModel \in CodexFamily
           THEN /\ instrFetches[1].url = CodexPromptUrl
                /\ IF Fetched(instrFetches[1])
                   THEN /\ Len(instrFetches) = 1
                        /\ instrResult = Str(instrFetches[1].out.text)
                   ELSE /\ Len(instrFetches) = 2
                        /\ BaseOutcome(instrFetches[2])
           ELSE /\ Len(instrFetches) = 1
                /\ BaseOutcome(instrFetches[1])

C15_Witness ==
    /\ instrPc = "done"
    /\ instrModel = <<"c", "o", "d", "e", "x", "-", "m", "i", "n", "i">>
    /\ Len(instrFetches) = 2
    /\ instrFetches[1].out.t = "THROW"
    /\ instrFetches[2].out.t = "Response" /\ ~instrFetches[2].out.ok
    /\ instrResult = Str(FallbackInstructions)

\* the forced refreshes invocation i has called
RefreshCallsOf(i) == SelectSeq(inv[i].calls, LAMBDA c : c.call = "refreshAccessToken")

\* C18: there is no mutual exclusion between invocations: an invocation that
\* has not ended can always take its next step, whatever the other one is
\* doing (a refresh is never held back by another refresh); each invocation
\* calls the forced refresh at most once, sends at most two requests and ends
\* with a result of its own.
C18_NoRefreshExclusion ==
    \A i \in Invocations :
        /\ Len(RefreshCallsOf(i)) <= 1
        /\ Len(inv[i].sent) <= 2
        /\ inv[i].pc \notin {"done", "rejected"} => ENABLED CStep(i)
        /\ inv[i].pc = "done" =>
             /\ inv[i].result # NoResult
             /\ (inv[i].result.response = NoResponse) # (inv[i].result.error = NoResponse)
             /\ inv[i].result.response # NoResponse =>
                  /\ inv[i].result.response.to = i
                  /\ inv[i].result.response.id = Len(inv[i].sent)

\* both invocations sent the same stale token, both got a 401, and the forced
\* refresh has been called twice, once by each
C18_Witness ==
    \A i \in Invocations :
        /\ Len(inv[i].sent) >= 1
        /\ inv[i].sent[1].req.headers.Authorization = <<"Bearer ", "tok0">>
        /\ inv[i].upstreamResponse # NoResponse
        /\ inv[i].upstreamResponse.status = 401
        /\ Len(RefreshCallsOf(i)) = 1
        /\ inv[i].pc = "done"

\* the pair the gateway returned to invocation i for its k-th request
GivenTo(i, k) ==
    IF k = 1
    THEN [token |-> inv[i].calls[1].out.accessToken,
          account |-> inv[i].calls[1].out.accountId]
    ELSE [token |-> RefreshCallsOf(i)[1].out.f.access_token,
          account |-> RefreshCallsOf(i)[1].out.f.account_id]

OwnCredentialsOnly ==
    \A i \in Invocations :
        \A k \in 1..Len(inv[i].sent) :
            /\ inv[i].sent[k].req.headers.Authorization
                 = <<"Bearer ", GivenTo(i, k).token.v>>
            /\ inv[i].sent[k].req.headers.ChatgptAccountId = GivenTo(i, k).account

StoreWrittenByGatewayOnly ==
    store' # store =>
        \E i \in Invocations :
            /\ inv[i].pc \in {"acquire", "refresh"}
            /\ Len(inv'[i].calls) = Len(inv[i].calls) + 1
            /\ inv'[i].calls[Len(inv'[i].calls)].call
                 \in {"getRefreshedAuth", "refreshAccessToken"}

\* C19: the stored credentials change only in a step that is a call of the
\* gateway (the accessor or the forced refresh), and the credentials in every
\* request of an invocation are those the gateway returned to that
\* invocation, also when the store has been replaced in between.
C19_StoreFrame == []OwnCredentialsOnly /\ [][StoreWrittenByGatewayOnly]_vars

\* an invocation sent the token it was given after the store was replaced
C19_Witness ==
    \E i \in Invocations :
        /\ Len(inv[i].sent) >= 1
        /\ inv[i].sent[1].minted >= 1
        /\ inv[i].sent[1].req.headers.Authorization = <<"Bearer ", "tok0">>
        /\ store.accessToken # Str("tok0")

====
